---- MODULE Spec2Model ----
(***************************************************************************)
(* Model of the CoQA question-answering utilities:                         *)
(*   utils/preprocessing.py  prepare_train_features_span                   *)
(*                           prepare_train_features_sequence_to_sequence   *)
(*   utils/eval.py           compute_metrics                               *)
(*   utils/download.py       download_data                                 *)
(* Token positions are 0-based as in the Python source; the sequences that *)
(* hold them are TLA+ sequences, read through PyGet, which also models     *)
(* Python's negative indices and its IndexError.                           *)
(***************************************************************************)
EXTENDS Integers, Sequences, FiniteSets, TLC

VARIABLES
    \* ---- prepare_train_features_span
    examples,            \* the batch: one record per Example
    lead_token_id,       \* the id the tokenizer puts first in every Feature
    max_length,          \* tokenizer argument max_length
    doc_stride,          \* tokenizer argument stride
    features,            \* tokenized_examples, one record per Feature
    i,                   \* index of the Feature the for loop is at
    pc,                  \* position in prepare_train_features_span
    error,               \* the exception raised, "" if none
    cls_index,
    token_start_index,
    token_end_index,
    start_positions,     \* tokenized_examples["start_positions"]
    end_positions,       \* tokenized_examples["end_positions"]
    \* ---- prepare_train_features_sequence_to_sequence, compute_metrics
    seq_examples,        \* the batch: question, story, answer of each Example
    encoder_max_length,
    decoder_max_length,
    seq_pc,              \* position in the seq2seq pipeline
    enc_input_ids,       \* examples["input_ids"]
    enc_attention_mask,  \* examples["attention_mask"]
    decoder_input_ids,   \* examples["decoder_input_ids"]
    decoder_attention_mask,
    labels,              \* examples["labels"]
    label_ids,           \* pred.label_ids
    predictions,         \* pred.predictions
    pred_str,
    label_str,
    \* ---- download_data
    dirs,                \* the directories that exist
    files,               \* path -> content of the file, Absent if none
    fetches,             \* path -> number of urlretrieve calls for it
    dl_pc,               \* position in download_data
    dl_suffix,           \* argument suffix of the call in progress
    dl_error,            \* the exception download_data raised, "" if none
    dl_present,          \* whether the file was there when the call began
    calls                \* completed calls: suffix, file present at the call, fetched

alignVars == <<examples, lead_token_id, max_length, doc_stride, features, i, pc,
               error, cls_index, token_start_index, token_end_index,
               start_positions, end_positions>>

seqVars == <<seq_examples, encoder_max_length, decoder_max_length, seq_pc,
             enc_input_ids, enc_attention_mask, decoder_input_ids,
             decoder_attention_mask, labels, label_ids, predictions, pred_str,
             label_str>>

dlVars == <<dirs, files, fetches, dl_pc, dl_suffix, dl_error, dl_present,
            calls>>

vars == <<alignVars, seqVars, dlVars>>

----------------------------------------------------------------------------
\* Bounds of the model.

\* Most question tokens of an Example.
MaxQuestionTokens == 1

\* Largest max_length handed to the tokenizer.
MaxLength == 7

\* Most Examples of a batch (SpecBatch).
MaxExamples == 2

----------------------------------------------------------------------------
\* The tokenizer (external): token ids, offsets, sequence ids, windows.

cls_token_id == 101

sep_token_id == 102

pad_token_id == 0

\* A leading token that is not the classification token (a tokenizer whose
\* configuration does not put cls_token_id into input_ids).
bos_token_id == 1

\* sequence_ids() gives None for special tokens.
None == -1

\* Character offsets of the tokens of the story "ab c" style text: two
\* adjacent tokens, a blank, a third token.
ContextOffsets == << <<0, 1>>, <<1, 2>>, <<3, 4>> >>

NumContextTokens == Len(ContextOffsets)

\* len(story) of a story of n tokens.
StoryLen(n) == IF n = 0 THEN 0 ELSE ContextOffsets[n][2]

ContextChars == StoryLen(NumContextTokens)

QuestionOffset(k) == <<2 * (k - 1), 2 * (k - 1) + 1>>

QuestionTokenId(k) == 200 + k

ContextTokenId(k) == 300 + k

Rep(x, n) == [j \in 1..n |-> x]

\* Context tokens a Feature of Example ex has room for:
\* max_length less [CLS], the question, [SEP] and the final [SEP].
Capacity(ex, maxlen) == maxlen - ex.question - 3

\* Number of windows the story of n tokens is split into.
NumWindows(n, cap, stride) ==
    IF n <= cap THEN 1
    ELSE 1 + ((n - cap) + (cap - stride) - 1) \div (cap - stride)

\* First and last context token (1-based in ContextOffsets) of window w >= 0.
WindowFirst(w, cap, stride) == 1 + w * (cap - stride)

WindowLast(w, n, cap, stride) ==
    IF WindowFirst(w, cap, stride) + cap - 1 <= n
    THEN WindowFirst(w, cap, stride) + cap - 1 ELSE n

\* The Feature of Example number sample (0-based) holding context tokens a..b.
Feature(ex, sample, a, b, maxlen, lead) ==
    LET nq   == ex.question
        nc   == b - a + 1
        npad == maxlen - (nq + nc + 3)
    IN  [ input_ids |->
              <<lead>> \o [k \in 1..nq |-> QuestionTokenId(k)] \o <<sep_token_id>>
              \o [k \in 1..nc |-> ContextTokenId(a + k - 1)] \o <<sep_token_id>>
              \o Rep(pad_token_id, npad),
          offset_mapping |->
              << <<0, 0>> >> \o [k \in 1..nq |-> QuestionOffset(k)] \o << <<0, 0>> >>
              \o [k \in 1..nc |-> ContextOffsets[a + k - 1]] \o << <<0, 0>> >>
              \o Rep(<<0, 0>>, npad),
          sequence_ids |->
              <<None>> \o Rep(0, nq) \o <<None>> \o Rep(1, nc) \o <<None>>
              \o Rep(None, npad),
          sample |-> sample ]

\* The Features of one Example, in window order.
ExampleFeatures(ex, sample, maxlen, stride, lead) ==
    LET cap == Capacity(ex, maxlen)
        nw  == NumWindows(ex.story, cap, stride)
    IN  [w \in 1..nw |->
            Feature(ex, sample, WindowFirst(w - 1, cap, stride),
                    WindowLast(w - 1, ex.story, cap, stride), maxlen, lead)]

RECURSIVE TokenizeFrom(_, _, _, _, _)
TokenizeFrom(exs, k, maxlen, stride, lead) ==
    IF k > Len(exs) THEN <<>>
    ELSE ExampleFeatures(exs[k], k - 1, maxlen, stride, lead)
         \o TokenizeFrom(exs, k + 1, maxlen, stride, lead)

\* tokenizer(question, story, truncation="only_second", max_length=...,
\*           stride=..., return_overflowing_tokens=True,
\*           return_offsets_mapping=True, padding="max_length")
Tokenizer(exs, maxlen, stride, lead) == TokenizeFrom(exs, 1, maxlen, stride, lead)

----------------------------------------------------------------------------
\* Python list access.

PyValid(seq, k) == k >= -Len(seq) /\ k < Len(seq)

PyGet(seq, k) == IF k >= 0 THEN seq[k + 1] ELSE seq[Len(seq) + k + 1]

\* list.index(x) raises ValueError when x is not in the list.
IndexRaisesNever(ids, x) == FALSE

IndexRaises(ids, x) == ~ \E j \in 1..Len(ids) : ids[j] = x

\* list.index(x): 0-based position of the first x (-1 stands for no value).
ListIndex(ids, x) ==
    IF \E j \in 1..Len(ids) : ids[j] = x
    THEN (CHOOSE j \in 1..Len(ids) :
              ids[j] = x /\ \A h \in 1..(j - 1) : ids[h] /= x) - 1
    ELSE -1

----------------------------------------------------------------------------
\* prepare_train_features_span

CurFeature == features[i + 1]

\* sample_index = sample_mapping[i]
SampleIndex(k) == features[k + 1].sample

\* start_char = examples["span_start"][sample_index]
StartChar(k) == examples[SampleIndex(k) + 1].span_start

\* end_char = examples["span_end"][sample_index]
EndChar(k) == examples[SampleIndex(k) + 1].span_end

\* The test of line 86 with the operands and'ed.
OutOfSpanBoth(offsets, first, last, start_char, end_char) ==
    PyGet(offsets, first)[1] > start_char /\ PyGet(offsets, last)[2] < end_char

\* if offsets[token_start_index][0] > start_char
\*    or offsets[token_end_index][1] < end_char
OutOfSpan(offsets, first, last, start_char, end_char) ==
    PyGet(offsets, first)[1] > start_char \/ PyGet(offsets, last)[2] < end_char

\* token_start_index left where the previous Feature's loops put it.
ScanFromPrevious(prev) == prev

\* token_start_index = 0
ScanFrom(prev) == 0

Raise(e) ==
    /\ pc' = "raised"
    /\ error' = e

\* The tokenizer call and the two empty label lists (lines 32-55).
Tokenize ==
    /\ pc = "tokenize"
    /\ features' = Tokenizer(examples, max_length, doc_stride, lead_token_id)
    /\ start_positions' = <<>>
    /\ end_positions' = <<>>
    /\ i' = 0
    /\ pc' = "for"
    /\ UNCHANGED <<examples, lead_token_id, max_length, doc_stride, error,
                   cls_index, token_start_index, token_end_index>>
    /\ UNCHANGED <<seqVars, dlVars>>

\* Head of the for loop and lines 59-75 of its body.
ForFeature ==
    /\ pc = "for"
    /\ i < Len(features)
    /\ IF IndexRaises(CurFeature.input_ids, cls_token_id)
       THEN /\ Raise("ValueError")
            /\ UNCHANGED <<cls_index, token_start_index>>
       ELSE /\ cls_index' = ListIndex(CurFeature.input_ids, cls_token_id)
            /\ token_start_index' = ScanFrom(token_start_index)
            /\ pc' = "scan_start"
            /\ UNCHANGED error
    /\ UNCHANGED <<examples, lead_token_id, max_length, doc_stride, features, i,
                   token_end_index, start_positions, end_positions>>
    /\ UNCHANGED <<seqVars, dlVars>>

\* while sequence_ids[token_start_index] != 1 (lines 76-77), then line 80.
ScanStart ==
    /\ pc = "scan_start"
    /\ IF ~PyValid(CurFeature.sequence_ids, token_start_index)
       THEN /\ Raise("IndexError")
            /\ UNCHANGED <<token_start_index, token_end_index>>
       ELSE IF PyGet(CurFeature.sequence_ids, token_start_index) /= 1
       THEN /\ token_start_index' = token_start_index + 1
            /\ UNCHANGED <<pc, error, token_end_index>>
       ELSE /\ token_end_index' = Len(CurFeature.input_ids) - 1
            /\ pc' = "scan_end"
            /\ UNCHANGED <<error, token_start_index>>
    /\ UNCHANGED <<examples, lead_token_id, max_length, doc_stride, features, i,
                   cls_index, start_positions, end_positions>>
    /\ UNCHANGED <<seqVars, dlVars>>

\* while sequence_ids[token_end_index] != 1 (lines 81-82).
ScanEnd ==
    /\ pc = "scan_end"
    /\ IF ~PyValid(CurFeature.sequence_ids, token_end_index)
       THEN /\ Raise("IndexError")
            /\ UNCHANGED token_end_index
       ELSE IF PyGet(CurFeature.sequence_ids, token_end_index) /= 1
       THEN /\ token_end_index' = token_end_index - 1
            /\ UNCHANGED <<pc, error>>
       ELSE /\ pc' = "window"
            /\ UNCHANGED <<error, token_end_index>>
    /\ UNCHANGED <<examples, lead_token_id, max_length, doc_stride, features, i,
                   cls_index, token_start_index, start_positions, end_positions>>
    /\ UNCHANGED <<seqVars, dlVars>>

\* The out-of-span test (lines 86-88).
WindowCheck ==
    /\ pc = "window"
    /\ IF OutOfSpan(CurFeature.offset_mapping, token_start_index, token_end_index,
                    StartChar(i), EndChar(i))
       THEN /\ start_positions' = Append(start_positions, cls_index)
            /\ end_positions' = Append(end_positions, cls_index)
            /\ i' = i + 1
            /\ pc' = "for"
       ELSE /\ pc' = "narrow_start"
            /\ UNCHANGED <<start_positions, end_positions, i>>
    /\ UNCHANGED <<examples, lead_token_id, max_length, doc_stride, features,
                   error, cls_index, token_start_index, token_end_index>>
    /\ UNCHANGED <<seqVars, dlVars>>

\* The forward narrowing loop and its append (lines 94-99).
NarrowStart ==
    /\ pc = "narrow_start"
    /\ IF /\ token_start_index < Len(CurFeature.offset_mapping)
          /\ PyGet(CurFeature.offset_mapping, token_start_index)[1] <= StartChar(i)
       THEN /\ token_start_index' = token_start_index + 1
            /\ UNCHANGED <<pc, start_positions>>
       ELSE /\ start_positions' = Append(start_positions, token_start_index - 1)
            /\ pc' = "narrow_end"
            /\ UNCHANGED token_start_index
    /\ UNCHANGED <<examples, lead_token_id, max_length, doc_stride, features, i,
                   error, cls_index, token_end_index, end_positions>>
    /\ UNCHANGED <<seqVars, dlVars>>

\* The backward narrowing loop and its append (lines 100-102).
NarrowEnd ==
    /\ pc = "narrow_end"
    /\ IF ~PyValid(CurFeature.offset_mapping, token_end_index)
       THEN /\ Raise("IndexError")
            /\ UNCHANGED <<token_end_index, end_positions, i>>
       ELSE IF PyGet(CurFeature.offset_mapping, token_end_index)[2] >= EndChar(i)
       THEN /\ token_end_index' = token_end_index - 1
            /\ UNCHANGED <<pc, error, end_positions, i>>
       ELSE /\ end_positions' = Append(end_positions, token_end_index + 1)
            /\ i' = i + 1
            /\ pc' = "for"
            /\ UNCHANGED <<error, token_end_index>>
    /\ UNCHANGED <<examples, lead_token_id, max_length, doc_stride, features,
                   cls_index, token_start_index, start_positions>>
    /\ UNCHANGED <<seqVars, dlVars>>

\* return tokenized_examples (line 104).
Return ==
    /\ pc = "for"
    /\ i = Len(features)
    /\ pc' = "returned"
    /\ UNCHANGED <<examples, lead_token_id, max_length, doc_stride, features, i,
                   error, cls_index, token_start_index, token_end_index,
                   start_positions, end_positions>>
    /\ UNCHANGED <<seqVars, dlVars>>

\* The batches of a conversation over one story: at most maxEx Examples that
\* share the story and the question length, each with an answer of at least
\* one character inside the story.
ConversationSet(maxEx) ==
    UNION { { [k \in 1..n |->
                  [ question |-> q, story |-> NumContextTokens,
                    span_start |-> sp[k][1], span_end |-> sp[k][2] ]] :
              sp \in [1..n -> { se \in (0..ContextChars) \X (0..ContextChars) :
                                   se[1] < se[2] }] } :
            n \in 1..maxEx, q \in 1..MaxQuestionTokens }

\* The Examples of the dataset: a story of 0..NumContextTokens tokens, a
\* question, and a character span, well-formed or not.
ExampleSet ==
    [ question : 1..MaxQuestionTokens,
      story : 0..NumContextTokens,
      span_start : 0..ContextChars,
      span_end : 0..ContextChars ]

\* The tokenizer accepts max_length and stride only when every Example keeps
\* room for a context token and the stride is smaller than that room.
TokenizerAccepts(exs, maxlen, stride) ==
    \A k \in 1..Len(exs) :
        Capacity(exs[k], maxlen) >= 1 /\ stride < Capacity(exs[k], maxlen)

InitAlign(Batches) ==
    /\ examples \in Batches
    /\ lead_token_id \in {cls_token_id, bos_token_id}
    /\ max_length \in 1..MaxLength
    /\ doc_stride \in 0..MaxLength
    /\ TokenizerAccepts(examples, max_length, doc_stride)
    /\ features = <<>>
    /\ i = 0
    /\ pc = "tokenize"
    /\ error = ""
    /\ cls_index = 0
    /\ token_start_index = 0
    /\ token_end_index = 0
    /\ start_positions = <<>>
    /\ end_positions = <<>>

Next ==
    \/ Tokenize
    \/ ForFeature
    \/ ScanStart
    \/ ScanEnd
    \/ WindowCheck
    \/ NarrowStart
    \/ NarrowEnd
    \/ Return

----------------------------------------------------------------------------
\* prepare_train_features_sequence_to_sequence

\* More bounds: answer length, decoder_max_length, Examples of a seq2seq batch.
MaxAnswerTokens == 2

MaxDecoderLength == 4

MaxSeqExamples == 2

\* The "ignore in loss" value of line 151.
IgnoreIndex == -100

AnswerVocab == {401, 402}

AnswerSet == UNION {[1..n -> AnswerVocab] : n \in 0..MaxAnswerTokens}

Min(a, b) == IF a <= b THEN a ELSE b

\* tokenizer(answer, truncation=True, max_length=..., padding="max_length")
TokenizeAnswer(answer, maxlen) ==
    LET kept == SubSeq(answer, 1, Min(Len(answer), maxlen - 2))
    IN  <<cls_token_id>> \o kept \o <<sep_token_id>>
        \o Rep(pad_token_id, maxlen - Len(kept) - 2)

\* tokenizer(question, story, truncation="only_second", max_length=...,
\*           padding="max_length"): the first window, no overflow.
TokenizeInput(ex, maxlen) ==
    Feature(ex, 0, 1, Min(ex.story, Capacity(ex, maxlen)), maxlen,
            cls_token_id).input_ids

AttentionMask(ids) == [j \in 1..Len(ids) |-> IF ids[j] = pad_token_id THEN 0 ELSE 1]

\* The label of a token with the pad test dropped.
LabelOfKeep(token, pad) == token

\* -100 if token == tokenizer.pad_token_id else token
LabelOf(token, pad) == IF token = pad THEN IgnoreIndex ELSE token

\* Lines 133-147: tokenize, store the columns, copy the decoder ids to labels.
TokenizeSeq ==
    /\ seq_pc = "tokenize"
    /\ enc_input_ids' =
           [k \in 1..Len(seq_examples) |->
               TokenizeInput(seq_examples[k], encoder_max_length)]
    /\ enc_attention_mask' =
           [k \in 1..Len(seq_examples) |->
               AttentionMask(TokenizeInput(seq_examples[k], encoder_max_length))]
    /\ decoder_input_ids' =
           [k \in 1..Len(seq_examples) |->
               TokenizeAnswer(seq_examples[k].answer, decoder_max_length)]
    /\ decoder_attention_mask' =
           [k \in 1..Len(seq_examples) |->
               AttentionMask(TokenizeAnswer(seq_examples[k].answer,
                                            decoder_max_length))]
    /\ labels' =
           [k \in 1..Len(seq_examples) |->
               TokenizeAnswer(seq_examples[k].answer, decoder_max_length)]
    /\ seq_pc' = "mask"
    /\ UNCHANGED <<seq_examples, encoder_max_length, decoder_max_length,
                   label_ids, predictions, pred_str, label_str>>
    /\ UNCHANGED <<alignVars, dlVars>>

\* Line 151: labels rebuilt row by row as new lists, then returned.
MaskLabels ==
    /\ seq_pc = "mask"
    /\ labels' = [k \in 1..Len(labels) |->
                     [j \in 1..Len(labels[k]) |->
                         LabelOf(labels[k][j], pad_token_id)]]
    /\ seq_pc' = "prepared"
    /\ UNCHANGED <<seq_examples, encoder_max_length, decoder_max_length,
                   enc_input_ids, enc_attention_mask, decoder_input_ids,
                   decoder_attention_mask, label_ids, predictions, pred_str,
                   label_str>>
    /\ UNCHANGED <<alignVars, dlVars>>

\* The training loop (external) hands compute_metrics the labels and the
\* ids the model generated: here one generated answer for the whole batch.
Evaluate ==
    /\ seq_pc = "prepared"
    /\ label_ids' = labels
    /\ \E a \in {x \in AnswerSet : Len(x) <= 1} :
           predictions' = [k \in 1..Len(labels) |->
                              TokenizeAnswer(a, decoder_max_length)]
    /\ seq_pc' = "metrics"
    /\ UNCHANGED <<seq_examples, encoder_max_length, decoder_max_length,
                   enc_input_ids, enc_attention_mask, decoder_input_ids,
                   decoder_attention_mask, labels, pred_str, label_str>>
    /\ UNCHANGED <<alignVars, dlVars>>

----------------------------------------------------------------------------
\* compute_metrics

IsSpecial(token) == token \in {cls_token_id, sep_token_id, pad_token_id}

\* tokenizer.batch_decode(ids, skip_special_tokens=True)
BatchDecode(ids) ==
    [k \in 1..Len(ids) |-> SelectSeq(ids[k], LAMBDA t : ~IsSpecial(t))]

\* The ignore value left in place.
UnmaskedKeep(token, pad) == token

\* labels_ids[labels_ids == -100] = tokenizer.pad_token_id, one element.
Unmasked(token, pad) == IF token = IgnoreIndex THEN pad ELSE token

\* compute_metrics up to the call of the external squad.compute_f1: the
\* in-place unmasking of pred.label_ids and the two decodes.
ComputeMetrics ==
    /\ seq_pc = "metrics"
    /\ pred_str' = BatchDecode(predictions)
    /\ label_ids' = [k \in 1..Len(label_ids) |->
                        [j \in 1..Len(label_ids[k]) |->
                            Unmasked(label_ids[k][j], pad_token_id)]]
    /\ label_str' = BatchDecode(label_ids')
    /\ seq_pc' = "scored"
    /\ UNCHANGED <<seq_examples, encoder_max_length, decoder_max_length,
                   enc_input_ids, enc_attention_mask, decoder_input_ids,
                   decoder_attention_mask, labels, predictions>>
    /\ UNCHANGED <<alignVars, dlVars>>

\* A conversation: at most maxEx Examples over one story with questions of
\* one length.
SeqBatchSet(maxEx) ==
    UNION { { [k \in 1..n |->
                  [ question |-> q, story |-> st, answer |-> ans[k] ]] :
              ans \in [1..n -> AnswerSet] } :
            n \in 1..maxEx, q \in 1..MaxQuestionTokens,
            st \in 0..NumContextTokens }

InitSeq ==
    /\ seq_examples \in SeqBatchSet(MaxSeqExamples)
    /\ encoder_max_length = MaxLength
    /\ decoder_max_length \in 2..MaxDecoderLength
    /\ \A k \in 1..Len(seq_examples) :
           Capacity(seq_examples[k], encoder_max_length) >= 1
    /\ seq_pc = "tokenize"
    /\ enc_input_ids = <<>>
    /\ enc_attention_mask = <<>>
    /\ decoder_input_ids = <<>>
    /\ decoder_attention_mask = <<>>
    /\ labels = <<>>
    /\ label_ids = <<>>
    /\ predictions = <<>>
    /\ pred_str = <<>>
    /\ label_str = <<>>

NextSeq ==
    \/ TokenizeSeq
    \/ MaskLabels
    \/ Evaluate
    \/ ComputeMetrics

----------------------------------------------------------------------------
\* download_data

\* Most download_data calls of a run.
MaxCalls == 3

Absent == "absent"

DataPath == "data"

\* The splits the notebooks ask for.
Suffixes == {"train", "dev"}

\* What a completed urlretrieve leaves in the file.
RemoteContents == {"v1", "v2"}

\* The file test of line 26 dropped.
FileMissingAlways(fs, path) == TRUE

\* not os.path.exists(data_path), data_path the file <data_path>/<suffix>.json
FileMissing(fs, path) == fs[path] = Absent

\* A call of download_data(data_path, url_path, suffix) begins.
DownloadData ==
    /\ dl_pc = "idle"
    /\ Len(calls) < MaxCalls
    /\ \E s \in Suffixes :
           /\ dl_suffix' = s
           /\ dl_present' = (files[s] /= Absent)
    /\ dl_error' = ""
    /\ dl_pc' = "makedirs"
    /\ UNCHANGED <<dirs, files, fetches, calls>>
    /\ UNCHANGED <<alignVars, seqVars>>

\* if not os.path.exists(data_path): os.makedirs(data_path) (lines 21-22)
MakeDirs ==
    /\ dl_pc = "makedirs"
    /\ IF DataPath \notin dirs
       THEN dirs' = dirs \cup {DataPath}
       ELSE UNCHANGED dirs
    /\ dl_pc' = "exists"
    /\ UNCHANGED <<files, fetches, dl_suffix, dl_error, dl_present, calls>>
    /\ UNCHANGED <<alignVars, seqVars>>

\* The file test of lines 24-26; the call returns when the file is there.
CheckFile ==
    /\ dl_pc = "exists"
    /\ IF FileMissing(files, dl_suffix)
       THEN /\ dl_pc' = "download"
            /\ UNCHANGED calls
       ELSE /\ dl_pc' = "idle"
            /\ calls' = Append(calls, [suffix |-> dl_suffix,
                                       present |-> dl_present,
                                       fetched |-> FALSE])
    /\ UNCHANGED <<dirs, files, fetches, dl_suffix, dl_error, dl_present>>
    /\ UNCHANGED <<alignVars, seqVars>>

\* download_url (lines 13-17, 27-29): urlretrieve writes the whole file, or
\* fails before it opens the file, or fails part way and leaves a part of it.
DownloadUrl ==
    /\ dl_pc = "download"
    /\ fetches' = [fetches EXCEPT ![dl_suffix] = @ + 1]
    /\ \/ \E c \in RemoteContents :
              /\ files' = [files EXCEPT ![dl_suffix] = c]
              /\ dl_error' = ""
       \/ /\ files' = files
          /\ dl_error' = "URLError"
       \/ /\ files' = [files EXCEPT ![dl_suffix] = "partial"]
          /\ dl_error' = "ContentTooShortError"
    /\ calls' = Append(calls, [suffix |-> dl_suffix,
                               present |-> dl_present,
                               fetched |-> TRUE])
    /\ dl_pc' = "idle"
    /\ UNCHANGED <<dirs, dl_suffix, dl_present>>
    /\ UNCHANGED <<alignVars, seqVars>>

\* Before the first call the data directory may exist, with or without files.
InitDownload ==
    /\ dirs \in SUBSET {DataPath}
    /\ files \in [Suffixes -> {Absent} \cup RemoteContents]
    /\ (DataPath \notin dirs => \A s \in Suffixes : files[s] = Absent)
    /\ fetches = [s \in Suffixes |-> 0]
    /\ dl_pc = "idle"
    /\ dl_suffix = "train"
    /\ dl_error = ""
    /\ dl_present = FALSE
    /\ calls = <<>>

NextDownload ==
    \/ DownloadData
    \/ MakeDirs
    \/ CheckFile
    \/ DownloadUrl

----------------------------------------------------------------------------
\* The specifications: each runs one of the programs and leaves the state of
\* the others as it was.

AlignIdle ==
    /\ examples = <<>>
    /\ lead_token_id = cls_token_id
    /\ max_length = MaxLength
    /\ doc_stride = 0
    /\ features = <<>>
    /\ i = 0
    /\ pc = "idle"
    /\ error = ""
    /\ cls_index = 0
    /\ token_start_index = 0
    /\ token_end_index = 0
    /\ start_positions = <<>>
    /\ end_positions = <<>>

SeqIdle ==
    /\ seq_examples = <<>>
    /\ encoder_max_length = MaxLength
    /\ decoder_max_length = MaxDecoderLength
    /\ seq_pc = "idle"
    /\ enc_input_ids = <<>>
    /\ enc_attention_mask = <<>>
    /\ decoder_input_ids = <<>>
    /\ decoder_attention_mask = <<>>
    /\ labels = <<>>
    /\ label_ids = <<>>
    /\ predictions = <<>>
    /\ pred_str = <<>>
    /\ label_str = <<>>

DownloadIdle ==
    /\ dirs = {}
    /\ files = [s \in Suffixes |-> Absent]
    /\ fetches = [s \in Suffixes |-> 0]
    /\ dl_pc = "off"
    /\ dl_suffix = "train"
    /\ dl_error = ""
    /\ dl_present = FALSE
    /\ calls = <<>>

\* prepare_train_features_span on one Example: every window of one story.
Init == InitAlign([1..1 -> ExampleSet]) /\ SeqIdle /\ DownloadIdle

Spec == Init /\ [][Next]_vars

\* prepare_train_features_span on a batch of several Examples.
InitBatch == InitAlign(ConversationSet(MaxExamples)) /\ SeqIdle /\ DownloadIdle

SpecBatch == InitBatch /\ [][Next]_vars

\* The seq2seq feature builder followed by the metric.
InitSeqSpec == InitSeq /\ AlignIdle /\ DownloadIdle

SpecSeq == InitSeqSpec /\ [][NextSeq]_vars

\* A run of download_data calls.
InitDownloadSpec == InitDownload /\ AlignIdle /\ SeqIdle

SpecDownload == InitDownloadSpec /\ [][NextDownload]_vars

----------------------------------------------------------------------------
\* What the properties speak of.

\* Feature number k, 0-based as in the source.
FeatureAt(k) == features[k + 1]

\* Feature k has its label pair.
Labelled(k) == k < Len(end_positions) /\ k < Len(start_positions)

\* The 0-based positions of the context tokens of a Feature.
ContextTokens(f) ==
    {j \in 0..(Len(f.sequence_ids) - 1) : f.sequence_ids[j + 1] = 1}

HasContext(f) == ContextTokens(f) /= {}

FirstContext(f) == CHOOSE j \in ContextTokens(f) : \A h \in ContextTokens(f) : j <= h

LastContext(f) == CHOOSE j \in ContextTokens(f) : \A h \in ContextTokens(f) : h <= j

ClsAbsent(f) == \A j \in 1..Len(f.input_ids) : f.input_ids[j] /= cls_token_id

\* The no-answer sentinel: the first position of cls_token_id in input_ids.
Sentinel(f) ==
    CHOOSE j \in 0..(Len(f.input_ids) - 1) :
        /\ f.input_ids[j + 1] = cls_token_id
        /\ \A h \in 0..(j - 1) : f.input_ids[h + 1] /= cls_token_id

\* 0 <= start_char <= end_char <= len(context)
WellFormedSpan(k) ==
    /\ 0 <= StartChar(k)
    /\ StartChar(k) <= EndChar(k)
    /\ EndChar(k) <= StoryLen(examples[SampleIndex(k) + 1].story)

\* The answer of Feature k lies fully within its context window.
SpanInWindow(k) ==
    LET f == FeatureAt(k)
    IN  /\ f.offset_mapping[FirstContext(f) + 1][1] <= StartChar(k)
        /\ f.offset_mapping[LastContext(f) + 1][2] >= EndChar(k)

\* The last context token whose char-start is <= start_char.
MinimalStart(k) ==
    LET f == FeatureAt(k)
        S == {j \in ContextTokens(f) : f.offset_mapping[j + 1][1] <= StartChar(k)}
    IN  CHOOSE j \in S : \A h \in S : h <= j

\* The first context token whose char-end is >= end_char.
MinimalEnd(k) ==
    LET f == FeatureAt(k)
        S == {j \in ContextTokens(f) : f.offset_mapping[j + 1][2] >= EndChar(k)}
    IN  CHOOSE j \in S : \A h \in S : j <= h

FeatureIndexes == 0..(Len(features) - 1)

\* Features k1 and k2 agree on everything the aligner reads for them.
SameInputs(k1, k2) ==
    /\ FeatureAt(k1).input_ids = FeatureAt(k2).input_ids
    /\ FeatureAt(k1).offset_mapping = FeatureAt(k2).offset_mapping
    /\ FeatureAt(k1).sequence_ids = FeatureAt(k2).sequence_ids
    /\ StartChar(k1) = StartChar(k2)
    /\ EndChar(k1) = EndChar(k2)

----------------------------------------------------------------------------
\* The properties.

\* C1: a Feature whose well-formed answer span lies within its context window
\* is labelled with the minimal range of context tokens covering the span:
\* the last context token starting at or before start_char and the first
\* context token ending at or after end_char.
C1_MinimalRange ==
    \A k \in FeatureIndexes :
        (/\ Labelled(k)
         /\ HasContext(FeatureAt(k))
         /\ WellFormedSpan(k)
         /\ SpanInWindow(k))
        => /\ start_positions[k + 1] = MinimalStart(k)
           /\ end_positions[k + 1] = MinimalEnd(k)

\* C2: a Feature whose answer span is not fully within its window gets the
\* sentinel, the first position of cls_token_id in its own input_ids, as both
\* labels, and the loops raise no IndexError on such a Feature.
C2_OutOfWindowSentinel ==
    /\ \A k \in FeatureIndexes :
           (/\ Labelled(k)
            /\ HasContext(FeatureAt(k))
            /\ ~SpanInWindow(k))
           => /\ start_positions[k + 1] = Sentinel(FeatureAt(k))
              /\ end_positions[k + 1] = Sentinel(FeatureAt(k))
    /\ (pc = "raised" /\ error = "IndexError" /\ HasContext(CurFeature))
       => SpanInWindow(i)

\* C2 happens: the call returned, one Feature of an Example is out of window
\* and carries the sentinel, another Feature of the same Example does not.
C2_Witness ==
    /\ pc = "returned"
    /\ \E k1, k2 \in FeatureIndexes :
           /\ SampleIndex(k1) = SampleIndex(k2)
           /\ ~SpanInWindow(k1)
           /\ start_positions[k1 + 1] = Sentinel(FeatureAt(k1))
           /\ end_positions[k1 + 1] = Sentinel(FeatureAt(k1))
           /\ SpanInWindow(k2)
           /\ start_positions[k2 + 1] /= Sentinel(FeatureAt(k2))
           /\ end_positions[k2 + 1] /= Sentinel(FeatureAt(k2))

\* C3: on a Feature with the classification token, a context token and a
\* well-formed span the aligner raises nothing, and a call that returns has
\* produced exactly one label pair per Feature.
C3_TotalOnWellFormed ==
    /\ pc = "raised"
       => ~(/\ ~ClsAbsent(CurFeature)
            /\ HasContext(CurFeature)
            /\ WellFormedSpan(i))
    /\ pc = "returned"
       => /\ Len(start_positions) = Len(features)
          /\ Len(end_positions) = Len(features)

\* C6: two Features that agree on input_ids, offset_mapping, sequence_ids and
\* on the span of their Examples carry the same label pair, wherever they
\* stand in the batch and whatever was processed before them.
C6_SameInputsSameLabels ==
    \A k1, k2 \in FeatureIndexes :
        (Labelled(k1) /\ Labelled(k2) /\ SameInputs(k1, k2))
        => /\ start_positions[k1 + 1] = start_positions[k2 + 1]
           /\ end_positions[k1 + 1] = end_positions[k2 + 1]

\* C6 happens: the call returned with two Features of different Examples that
\* agree on their inputs, labelled with an answer, a different Feature
\* processed between them.
C6_Witness ==
    /\ pc = "returned"
    /\ \E k1, k2, k3 \in FeatureIndexes :
           /\ k1 < k3 /\ k3 < k2
           /\ SampleIndex(k1) /= SampleIndex(k2)
           /\ SameInputs(k1, k2)
           /\ ~SameInputs(k1, k3)
           /\ start_positions[k1 + 1] /= Sentinel(FeatureAt(k1))
           /\ start_positions[k3 + 1] /= Sentinel(FeatureAt(k3))

\* C7: a Feature without cls_token_id in its input_ids never gets a label,
\* the aligner does not get past the lookup for it, the call does not return,
\* and what it raises there is the lookup's ValueError.
C7_MissingClsRaises ==
    \A k \in FeatureIndexes :
        ClsAbsent(FeatureAt(k))
        => /\ Len(start_positions) <= k
           /\ Len(end_positions) <= k
           /\ pc /= "returned"
           /\ (i = k => pc \in {"for", "raised"})
           /\ (i = k /\ pc = "raised" => error = "ValueError")

\* C7 happens: the lookup raised on a Feature whose window holds the answer.
C7_Witness ==
    /\ pc = "raised"
    /\ error = "ValueError"
    /\ ClsAbsent(CurFeature)
    /\ HasContext(CurFeature)
    /\ WellFormedSpan(i)
    /\ SpanInWindow(i)

\* C8: a span running from the char-start of the window's first context token
\* to the char-end of its last context token gets labels that are positions of
\* context tokens, neither of them the sentinel.
C8_WholeWindowValid ==
    \A k \in FeatureIndexes :
        (/\ Labelled(k)
         /\ HasContext(FeatureAt(k))
         /\ StartChar(k) =
                FeatureAt(k).offset_mapping[FirstContext(FeatureAt(k)) + 1][1]
         /\ EndChar(k) =
                FeatureAt(k).offset_mapping[LastContext(FeatureAt(k)) + 1][2])
        => /\ start_positions[k + 1] \in ContextTokens(FeatureAt(k))
           /\ end_positions[k + 1] \in ContextTokens(FeatureAt(k))
           /\ start_positions[k + 1] /= Sentinel(FeatureAt(k))
           /\ end_positions[k + 1] /= Sentinel(FeatureAt(k))

\* C9: a call on a span with start_char > end_char does not return labels.
C9_MalformedSpanRaises ==
    pc = "returned" => \A k \in FeatureIndexes : StartChar(k) <= EndChar(k)

\* C4: labels has the shape of decoder_input_ids, holds -100 where
\* decoder_input_ids holds pad_token_id and the token elsewhere, and
\* decoder_input_ids is still the tokenizer's output, without any -100.
C4_LabelsMaskPadding ==
    seq_pc \in {"prepared", "metrics", "scored"}
    => /\ Len(labels) = Len(seq_examples)
       /\ Len(decoder_input_ids) = Len(seq_examples)
       /\ \A k \in 1..Len(seq_examples) :
              /\ decoder_input_ids[k] =
                     TokenizeAnswer(seq_examples[k].answer, decoder_max_length)
              /\ Len(labels[k]) = Len(decoder_input_ids[k])
              /\ \A j \in 1..Len(decoder_input_ids[k]) :
                     /\ decoder_input_ids[k][j] /= IgnoreIndex
                     /\ decoder_input_ids[k][j] = pad_token_id
                        => labels[k][j] = IgnoreIndex
                     /\ decoder_input_ids[k][j] /= pad_token_id
                        => labels[k][j] = decoder_input_ids[k][j]

\* C4 happens: a row of labels has a masked padding position and an answer
\* token.
C4_Witness ==
    /\ seq_pc = "prepared"
    /\ \E k \in 1..Len(labels) : \E j1, j2 \in 1..Len(labels[k]) :
           /\ labels[k][j1] = IgnoreIndex
           /\ labels[k][j2] \in AnswerVocab

\* C10: after compute_metrics pred.label_ids is decoder_input_ids again, and
\* compute_metrics does not change pred.predictions.
C10_MaskUnmaskRoundTrip ==
    /\ [](seq_pc = "scored" => label_ids = decoder_input_ids)
    /\ [][seq_pc = "metrics" => predictions' = predictions]_vars

\* C10 happens: compute_metrics ran on labels with a masked padding position,
\* which holds pad_token_id again.
C10_Witness ==
    /\ seq_pc = "scored"
    /\ \E k \in 1..Len(labels) : \E j \in 1..Len(labels[k]) :
           /\ labels[k][j] = IgnoreIndex
           /\ label_ids[k][j] = pad_token_id

\* C5: a call fetches exactly when the file was not there at the call, and
\* no step changes a file that is there or fetches for it.
C5_FetchIffMissing ==
    /\ [](\A c \in 1..Len(calls) : calls[c].fetched <=> ~calls[c].present)
    /\ [][\A s \in Suffixes :
              files[s] /= Absent
              => files'[s] = files[s] /\ fetches'[s] = fetches[s]]_vars

\* C5 happens: a first call fetched the file, a later call for the same split
\* found it and fetched nothing.
C5_Witness ==
    \E a, b \in 1..Len(calls) :
        /\ a < b
        /\ calls[a].suffix = calls[b].suffix
        /\ calls[a].fetched /\ ~calls[a].present
        /\ calls[b].present /\ ~calls[b].fetched
        /\ fetches[calls[a].suffix] = 1
        /\ files[calls[a].suffix] \in RemoteContents

====
